---- MODULE Spec2Model ----
(***************************************************************************)
(* candycache: an in-memory key/value store whose entries carry an         *)
(* absolute expiry (Unix seconds), guarded by one sync.RWMutex, with an    *)
(* optional background sweeper (gc) driven by a time.Ticker.               *)
(*                                                                         *)
(* Time is counted in ticks of 1/SubSec second.  time.Now().Unix() is the  *)
(* clock cut to whole seconds; a time.Duration is a number of ticks.       *)
(***************************************************************************)
EXTENDS Integers, FiniteSets, Sequences, TLC

VARIABLES
    storage,          \* Cache.storage: map[string]Item
    cleanupInterval,  \* Cache.cleanupInterval, in ticks
    clock,            \* the wall clock, in ticks
    tickerC,          \* ticker.C of gc: TRUE when a tick is buffered (capacity 1)
    writer,           \* RWMutex: the process holding the exclusive lock, or NoProc
    readers,          \* RWMutex: the processes holding the shared lock
    pc,               \* per process: "idle", "lock" (gc waiting for the lock), "cs" (lock held),
                      \* "gone" (a caller that has dropped its *Cache)
    call,             \* per process: the call in progress (op and arguments)
    todo,             \* Cleanup's range loop: keys not yet visited
    sweep,            \* the sweep in progress: clock and mapping when it took the lock; and
                      \* prev, the second the clock read when the last finished sweep took
                      \* the lock, if no Add or Load has returned since (else Never)
    last,             \* the operation that completed last, with what it returned
    atomic,           \* the atomic key->(value, expiresAt) map: every operation acts on it
                      \* in one step, when it returns
    heap,             \* the contents of the callers' values of reference kind (slices,
                      \* maps): Item.data holds the reference, not the contents
    keysOf,           \* per caller: the keys its calls use
    mine,             \* per caller: its last Add or Delete, kept when callers own their keys:
                      \* the operation, the value, and for an Add its ttl and the clock then
    buffer,           \* the byte buffer a dump is saved into and loaded from
    other             \* the mapping of a second Cache, the one dumps are saved from

vars == <<storage, cleanupInterval, clock, tickerC, writer, readers, pc, call,
          todo, sweep, last, atomic, heap, keysOf, mine, buffer, other>>

snapshotVars == <<buffer, other>>

-----------------------------------------------------------------------------
(* Bounds and universes *)

MaxClock == 3
SubSec == 2
Interval == 2

Keys == {"k1", "k2"}
Data == {"v1", "v2"}
TTLs == {-3, 0, 1, 2}
Callers == {"c1", "c2"}
GC == "gc"
Procs == Callers \cup {GC}
CleanupIntervals == {-1, 0, Interval}

Nil == "nil"
NoProc == "none"
ErrKeyNotFound == "key not found"
NoCall == [op |-> "none", key |-> Nil, data |-> Nil, ttl |-> 0]
Never == -1
NoSweep == [active |-> FALSE, start |-> 0, before |-> <<>>, prev |-> Never]
NoLast == [op |-> "none", key |-> Nil, data |-> Nil, ret |-> Nil]
NoMutation == [op |-> "none", data |-> Nil, ttl |-> 0, at |-> 0]
EmptyMap == [k \in {} |-> [destroyTimestamp |-> 0, data |-> Nil]]

NoDump == [full |-> FALSE, dump |-> <<>>]
ErrDecoding == "decoding error"
OtherStore == "other"

Contents == {"a", "b"}

WriteOps == {"Add", "Delete", "Cleanup", "Flush", "Load"}
ReadOps == {"Get", "Count", "List", "Size"}

-----------------------------------------------------------------------------
(* Pure helpers *)

\* time.Now().Unix(): whole seconds of the clock
Unix(c) == c \div SubSec

\* int64(ttl.Seconds()): the float is truncated toward zero
Seconds(ttl) == IF ttl >= 0 THEN ttl \div SubSec ELSE -((-ttl) \div SubSec)

Item(ts, d) == [destroyTimestamp |-> ts, data |-> d]

\* delete(c.storage, key)
MapDelete(m, key) == [k \in (DOMAIN m) \ {key} |-> m[k]]

\* c.storage[key] = item
MapPut(m, key, item) == [k \in (DOMAIN m) \cup {key} |-> IF k = key THEN item ELSE m[k]]

\* `for key := range m`: the orders in which the keys of a map may come
RangeOrders(m) ==
    LET n == Cardinality(DOMAIN m)
    IN  {f \in [1..n -> DOMAIN m] : \A i, j \in 1..n : f[i] = f[j] => i = j}

\* the test of Cleanup's loop body
Expired(item, now) == item.destroyTimestamp <= Unix(now)

-----------------------------------------------------------------------------
(* Bodies of the operations, as functions of the mapping *)

\* variants of the bodies below, each with one slip
AddStoreRejectsNonPositive(m, key, data, ttl, now) ==
    IF ttl <= 0 THEN m ELSE MapPut(m, key, Item(Unix(now) + Seconds(ttl), data))

AddStoreKeepsExpiry(m, key, data, ttl, now) ==
    IF key \in DOMAIN m
    THEN MapPut(m, key, Item(m[key].destroyTimestamp, data))
    ELSE MapPut(m, key, Item(Unix(now) + Seconds(ttl), data))

GetResultHidesStale(m, key) ==
    IF key \in DOMAIN m /\ m[key].destroyTimestamp > Unix(clock)
    THEN <<m[key].data, TRUE>>
    ELSE <<Nil, FALSE>>

DeleteResultSilent(m, key) == Nil

\* a Delete that reports a key past its expiresAt as not found
DeleteResultStaleIsAbsent(m, key) ==
    IF key \notin DOMAIN m \/ m[key].destroyTimestamp <= Unix(clock) THEN ErrKeyNotFound ELSE Nil

DeleteStoreForgets(m, key) == m

FlushStoreKeepsLive(m) ==
    [k \in {x \in DOMAIN m : m[x].destroyTimestamp > Unix(clock)} |-> m[k]]

\* a test that runs one second ahead of the clock
CleanupVisitAhead(m, key, now) ==
    IF m[key].destroyTimestamp <= Unix(now) + 1 THEN MapDelete(m, key) ELSE m

CleanupVisitStrict(m, key, now) ==
    IF m[key].destroyTimestamp < Unix(now) THEN MapDelete(m, key) ELSE m

\* Cache.Add: the mapping after the call
AddStore(m, key, data, ttl, now) == MapPut(m, key, Item(Unix(now) + Seconds(ttl), data))

\* Cache.Get: (value, found)
GetResult(m, key) == IF key \in DOMAIN m THEN <<m[key].data, TRUE>> ELSE <<Nil, FALSE>>

\* Cache.Delete: the error returned
DeleteResult(m, key) == IF key \notin DOMAIN m THEN ErrKeyNotFound ELSE Nil

\* Cache.Delete: the mapping after the call
DeleteStore(m, key) == IF key \notin DOMAIN m THEN m ELSE MapDelete(m, key)

\* Cache.Flush: the mapping after the call
FlushStore(m) == EmptyMap

\* Cache.Count
CountResult(m) == Cardinality(DOMAIN m)

\* a List whose slice is made with a length instead of a capacity: the pairs
\* are appended after as many zero pairs
ListResultsPadded(m) ==
    {[i \in 1..(2 * Len(ord)) |->
        IF i <= Len(ord)
        THEN [Key |-> "", Item |-> Item(0, Nil)]
        ELSE [Key |-> ord[i - Len(ord)], Item |-> m[ord[i - Len(ord)]]]] : ord \in RangeOrders(m)}

\* Cache.List: the slices of KeyItemPair it may return
ListResults(m) ==
    {[i \in 1..Len(ord) |-> [Key |-> ord[i], Item |-> m[ord[i]]]] : ord \in RangeOrders(m)}

\* Cache.Cleanup run alone on mapping m between clock readings from and to:
\* the mappings it may leave, each entry tested at a reading of its own
CleanupOutcomes(m, from, to) ==
    {[k \in kept |-> m[k]] :
        kept \in {S \in SUBSET DOMAIN m :
                    \A k \in DOMAIN m :
                        /\ Expired(m[k], from) => k \notin S
                        /\ ~Expired(m[k], to) => k \in S}}

\* isize of a key: a string counts one byte (a uint8) per index, and the
\* keys have two
KeyBytes == 2

\* isize of a value: one string of one byte behind the reference
DataBytes == 1

\* isize of destroyTimestamp: reflect.TypeOf(int64).Size()
Int64Bytes == 8

\* Cache.Size: the sum over the entries, in whatever order the map is walked
SizeResult(m) ==
    LET walk[S \in SUBSET DOMAIN m] ==
            IF S = {} THEN 0
            ELSE LET key == CHOOSE k \in S : TRUE
                 IN  KeyBytes + DataBytes + Int64Bytes + walk[S \ {key}]
    IN  walk[DOMAIN m]

\* one iteration of Cleanup's loop on key, reading the clock now
CleanupVisit(m, key, now) == IF Expired(m[key], now) THEN MapDelete(m, key) ELSE m

-----------------------------------------------------------------------------
(* The dump: a sequence of {key, value, expiresAt} records, one per entry,  *)
(* in the order the mapping happens to be walked                            *)

Record(m, k) == [key |-> k, data |-> m[k].data, destroyTimestamp |-> m[k].destroyTimestamp]

\* Save: the dumps the encoder may write for mapping m
Encodings(m) ==
    {[full |-> TRUE, dump |-> [i \in 1..Len(ord) |-> Record(m, ord[i])]] : ord \in RangeOrders(m)}

\* Load: the candidate mapping decoded from a buffer, records read in order
Decode(buf) ==
    LET dump == buf.dump
        keys == {dump[i].key : i \in 1..Len(dump)}
        at(k) == CHOOSE i \in 1..Len(dump) :
                    /\ dump[i].key = k
                    /\ \A j \in 1..Len(dump) : dump[j].key = k => j <= i
    IN  [k \in keys |-> Item(dump[at(k)].destroyTimestamp, dump[at(k)].data)]

\* a Load that adds the decoded entries to the ones the store holds
LoadStoreMerges(m, candidate) ==
    [k \in DOMAIN m \cup DOMAIN candidate |->
        IF k \in DOMAIN candidate THEN candidate[k] ELSE m[k]]

\* Load: the mapping after a successful call, the candidate and nothing else
LoadStore(m, candidate) == candidate

-----------------------------------------------------------------------------
(* Initial state: Cacher(cleanupInterval) has returned *)

InitWith(intervals, keys, others) ==
    /\ storage = EmptyMap
    /\ cleanupInterval \in intervals
    /\ keysOf = keys
    /\ mine = [p \in Callers |-> NoMutation]
    /\ clock = 0
    /\ tickerC = FALSE
    /\ writer = NoProc
    /\ readers = {}
    /\ pc = [p \in Procs |-> "idle"]
    /\ call = [p \in Procs |-> NoCall]
    /\ todo = {}
    /\ sweep = NoSweep
    /\ last = NoLast
    /\ atomic = EmptyMap
    /\ heap = [d \in Data |-> "a"]
    /\ buffer = NoDump
    /\ other \in others

\* every caller may use every key
Init == InitWith(CleanupIntervals, [p \in Callers |-> Keys], {EmptyMap})

\* a sweeper started only for intervals above one second
GcStartedAboveOneSecond == cleanupInterval > SubSec

\* Cacher: the gc goroutine exists only for a positive interval
GcStarted == cleanupInterval > 0

-----------------------------------------------------------------------------
(* Actions *)

\* Time passes by one tick; the ticker fires every cleanupInterval ticks
\* into a channel of capacity 1 (a tick is dropped when one is buffered).
Tick ==
    /\ clock < MaxClock
    /\ clock' = clock + 1
    /\ tickerC' = (tickerC \/ (GcStarted /\ (clock + 1) % cleanupInterval = 0))
    /\ UNCHANGED <<storage, cleanupInterval, writer, readers, pc, call, todo, sweep, last, keysOf, mine,
                   snapshotVars, atomic, heap>>

\* no lock at all
LockFreeAlways(op) == TRUE

\* a lock whose readers do not wait for the writer
LockFreeReadersBarge(op) == op \in WriteOps => (writer = NoProc /\ readers = {})

\* a lock that takes every request for a shared one
LockFreeShared(op) == writer = NoProc

\* sync.RWMutex: Lock() waits for the writer and the readers to leave, RLock()
\* for the writer
LockFree(op) == writer = NoProc /\ (op \in WriteOps => readers = {})

\* c.Lock() or c.RLock() at the head of operation op
Acquire(p, op, key, data, ttl) ==
    /\ LockFree(op)
    /\ IF op \in WriteOps
       THEN writer' = p /\ readers' = readers
       ELSE writer' = writer /\ readers' = readers \cup {p}
    /\ pc' = [pc EXCEPT ![p] = "cs"]
    /\ call' = [call EXCEPT ![p] = [op |-> op, key |-> key, data |-> data, ttl |-> ttl]]
    /\ IF op = "Cleanup"
       THEN /\ todo' = DOMAIN storage
            /\ sweep' = [active |-> TRUE, start |-> clock, before |-> storage, prev |-> sweep.prev]
       ELSE UNCHANGED <<todo, sweep>>

\* A caller calls an operation and gets past its lock
CallOp(p, op, key, data, ttl) ==
    /\ pc[p] = "idle"
    /\ Acquire(p, op, key, data, ttl)
    /\ UNCHANGED <<storage, cleanupInterval, clock, tickerC, last, keysOf, mine, snapshotVars, atomic, heap>>

CallAdd(p) == \E k \in keysOf[p], d \in Data, t \in TTLs : CallOp(p, "Add", k, d, t)
CallGet(p) == \E k \in keysOf[p] : CallOp(p, "Get", k, Nil, 0)
CallDelete(p) == \E k \in keysOf[p] : CallOp(p, "Delete", k, Nil, 0)
CallCleanup(p) == CallOp(p, "Cleanup", Nil, Nil, 0)
CallFlush(p) == CallOp(p, "Flush", Nil, Nil, 0)
CallCount(p) == CallOp(p, "Count", Nil, Nil, 0)
CallList(p) == CallOp(p, "List", Nil, Nil, 0)
CallSize(p) == CallOp(p, "Size", Nil, Nil, 0)

\* gc: `for range ticker.C` receives a tick and calls c.Cleanup()
GcRecv ==
    /\ GcStarted
    /\ pc[GC] = "idle"
    /\ tickerC
    /\ tickerC' = FALSE
    /\ pc' = [pc EXCEPT ![GC] = "lock"]
    /\ UNCHANGED <<storage, cleanupInterval, clock, writer, readers, call, todo, sweep, last, keysOf,
                   mine, snapshotVars, atomic, heap>>

\* gc: the c.Lock() of its Cleanup succeeds
GcLock ==
    /\ pc[GC] = "lock"
    /\ Acquire(GC, "Cleanup", Nil, Nil, 0)
    /\ UNCHANGED <<storage, cleanupInterval, clock, tickerC, last, keysOf, mine, snapshotVars, atomic, heap>>

\* A caller drops the *Cache that Cacher returned to it.  Nothing of Cache
\* tells gc: the goroutine keeps its own reference and ranges over ticker.C,
\* which is never closed.
Discard(p) ==
    /\ pc[p] = "idle"
    /\ pc' = [pc EXCEPT ![p] = "gone"]
    /\ UNCHANGED <<storage, cleanupInterval, clock, tickerC, writer, readers, call, todo, sweep, last,
                   keysOf, mine, snapshotVars, atomic, heap>>

\* A caller writes into a value it holds: one it passed to Add as data, or one
\* that Get or List returned.  Add stores the interface value as it is and
\* Get returns item.data as it is, so store and caller hold the same
\* reference.
MutateValue(p) ==
    /\ pc[p] = "idle"
    /\ keysOf[p] # {}
    /\ \E d \in Data : \E c \in Contents \ {heap[d]} : heap' = [heap EXCEPT ![d] = c]
    /\ UNCHANGED <<storage, cleanupInterval, clock, tickerC, writer, readers, pc, call, todo, sweep,
                   last, atomic, keysOf, mine, snapshotVars>>

\* every caller has keys and no two callers use a common key
OwnKeys ==
    /\ \A p \in Callers : keysOf[p] # {}
    /\ \A p, q \in Callers : p # q => keysOf[p] \cap keysOf[q] = {}

\* another process is inside its critical section while p writes the map: a
\* data race on the map, which either write may lose
Racing(p) == \E q \in Procs \ {p} : pc[q] = "cs"

\* p's write of the map, which leaves it as `new` unless it races
Store(p, new) == storage' \in (IF Racing(p) THEN {new, storage} ELSE {new})

\* the keys a finished sweep took out
Swept == DOMAIN sweep.before \ DOMAIN storage

\* what call c, made at clock now, does to the atomic map m
Effect(c, m, now) ==
    CASE c.op = "Add" -> AddStore(m, c.key, c.data, c.ttl, now)
      [] c.op = "Delete" -> DeleteStore(m, c.key)
      [] c.op = "Flush" -> FlushStore(m)
      [] c.op = "Load" -> LoadStore(m, c.data)
      [] c.op = "Cleanup" -> [k \in DOMAIN m \ Swept |-> m[k]]
      [] OTHER -> m

\* the deferred c.Unlock() / c.RUnlock() and the return
Return(p, ret) ==
    /\ pc' = [pc EXCEPT ![p] = "idle"]
    /\ call' = [call EXCEPT ![p] = NoCall]
    /\ writer' = IF writer = p THEN NoProc ELSE writer
    /\ readers' = readers \ {p}
    /\ last' = [op |-> call[p].op, key |-> call[p].key, data |-> call[p].data, ret |-> ret]
    /\ atomic' = Effect(call[p], atomic, clock)
    /\ mine' = IF OwnKeys /\ p \in Callers /\ call[p].op \in {"Add", "Delete"}
               THEN [mine EXCEPT ![p] = [op |-> call[p].op, data |-> call[p].data,
                                         ttl |-> call[p].ttl,
                                         at |-> IF call[p].op = "Add" THEN clock ELSE 0]]
               ELSE mine
    /\ UNCHANGED keysOf

InCS(p, op) == pc[p] = "cs" /\ call[p].op = op

Add(p) ==
    /\ InCS(p, "Add")
    /\ Store(p, AddStore(storage, call[p].key, call[p].data, call[p].ttl, clock))
    /\ Return(p, Nil)
    /\ sweep' = [sweep EXCEPT !.prev = Never]
    /\ UNCHANGED <<cleanupInterval, clock, tickerC, todo, snapshotVars, heap>>

Get(p) ==
    /\ InCS(p, "Get")
    /\ Return(p, GetResult(storage, call[p].key))
    /\ UNCHANGED <<storage, cleanupInterval, clock, tickerC, todo, sweep, snapshotVars, heap>>

Delete(p) ==
    /\ InCS(p, "Delete")
    /\ Store(p, DeleteStore(storage, call[p].key))
    /\ Return(p, DeleteResult(storage, call[p].key))
    /\ UNCHANGED <<cleanupInterval, clock, tickerC, todo, sweep, snapshotVars, heap>>

Flush(p) ==
    /\ InCS(p, "Flush")
    /\ Store(p, FlushStore(storage))
    /\ Return(p, Nil)
    /\ UNCHANGED <<cleanupInterval, clock, tickerC, todo, sweep, snapshotVars, heap>>

Count(p) ==
    /\ InCS(p, "Count")
    /\ Return(p, CountResult(storage))
    /\ UNCHANGED <<storage, cleanupInterval, clock, tickerC, todo, sweep, snapshotVars, heap>>

List(p) ==
    /\ InCS(p, "List")
    /\ \E items \in ListResults(storage) : Return(p, items)
    /\ UNCHANGED <<storage, cleanupInterval, clock, tickerC, todo, sweep, snapshotVars, heap>>

Size(p) ==
    /\ InCS(p, "Size")
    /\ Return(p, SizeResult(storage))
    /\ UNCHANGED <<storage, cleanupInterval, clock, tickerC, todo, sweep, snapshotVars, heap>>

\* Save on the second Cache: the dump of its mapping goes to the buffer
SaveOther(p) ==
    /\ pc[p] = "idle"
    /\ keysOf[p] # {}
    /\ buffer' \in Encodings(other)
    /\ last' = [op |-> "Save", key |-> OtherStore, data |-> Nil, ret |-> Nil]
    /\ UNCHANGED <<storage, cleanupInterval, clock, tickerC, writer, readers, pc, call, todo,
                   sweep, keysOf, mine, other, atomic, heap>>

\* A caller calls Load: the dump is read and decoded, then the lock taken
CallLoad(p) ==
    /\ pc[p] = "idle"
    /\ keysOf[p] # {}
    /\ buffer.full
    /\ Acquire(p, "Load", Nil, Decode(buffer), 0)
    /\ buffer' = NoDump
    /\ UNCHANGED <<storage, cleanupInterval, clock, tickerC, last, keysOf, mine, other, atomic, heap>>

\* Load: the decoded mapping replaces the store's
Load(p) ==
    /\ InCS(p, "Load")
    /\ Store(p, LoadStore(storage, call[p].data))
    /\ Return(p, Nil)
    /\ sweep' = [sweep EXCEPT !.prev = Never]
    /\ UNCHANGED <<cleanupInterval, clock, tickerC, todo, snapshotVars, heap>>

\* Load from a source with no dump in it fails and touches nothing
LoadFails(p) ==
    /\ pc[p] = "idle"
    /\ keysOf[p] # {}
    /\ ~buffer.full
    /\ last' = [op |-> "Load", key |-> Nil, data |-> Nil, ret |-> ErrDecoding]
    /\ UNCHANGED <<storage, cleanupInterval, clock, tickerC, writer, readers, pc, call, todo,
                   sweep, keysOf, mine, snapshotVars, atomic, heap>>

\* a loop that ends at its first delete
CleanupStepStopsAtFirst(p) ==
    /\ InCS(p, "Cleanup")
    /\ \E key \in todo :
        /\ Store(p, CleanupVisit(storage, key, clock))
        /\ todo' = IF Expired(storage[key], clock) THEN {} ELSE todo \ {key}
    /\ UNCHANGED <<cleanupInterval, clock, tickerC, writer, readers, pc, call, sweep, last, keysOf,
                   mine, snapshotVars, atomic, heap>>

\* Cleanup: one iteration of `for key, item := range c.storage`
CleanupStep(p) ==
    /\ InCS(p, "Cleanup")
    /\ \E key \in todo :
        /\ Store(p, CleanupVisit(storage, key, clock))
        /\ todo' = todo \ {key}
    /\ UNCHANGED <<cleanupInterval, clock, tickerC, writer, readers, pc, call, sweep, last, keysOf,
                   mine, snapshotVars, atomic, heap>>

\* Cleanup: the loop is over; deferred Unlock and return
CleanupReturn(p) ==
    /\ InCS(p, "Cleanup")
    /\ todo = {}
    /\ sweep' = [NoSweep EXCEPT !.prev = Unix(sweep.start)]
    /\ Return(p, Nil)
    /\ UNCHANGED <<storage, cleanupInterval, clock, tickerC, todo, snapshotVars, heap>>

-----------------------------------------------------------------------------
(* The store under concurrent callers and the background sweeper *)

Next ==
    \/ Tick
    \/ GcRecv
    \/ \E p \in Callers : CallAdd(p)
    \/ \E p \in Callers : CallGet(p)
    \/ \E p \in Callers : CallDelete(p)
    \/ \E p \in Callers : CallCleanup(p)
    \/ \E p \in Callers : CallFlush(p)
    \/ \E p \in Callers : CallCount(p)
    \/ \E p \in Callers : CallList(p)
    \/ GcLock
    \/ \E p \in Callers : Add(p)
    \/ \E p \in Callers : Get(p)
    \/ \E p \in Callers : Delete(p)
    \/ \E p \in Callers : Flush(p)
    \/ \E p \in Callers : Count(p)
    \/ \E p \in Callers : List(p)
    \/ \E p \in Procs : CleanupStep(p)
    \/ \E p \in Procs : CleanupReturn(p)

Spec == Init /\ [][Next]_vars

-----------------------------------------------------------------------------
(* Callers that Add, Get and Delete on keys of their own, the sweeper off *)

DisjointKeys == ("c1" :> {"k1"}) @@ ("c2" :> {"k2"})

InitDisjoint == InitWith({i \in CleanupIntervals : i < 0}, DisjointKeys, {EmptyMap})

NextDisjoint ==
    \/ Tick
    \/ \E p \in Callers : CallAdd(p)
    \/ \E p \in Callers : CallGet(p)
    \/ \E p \in Callers : CallDelete(p)
    \/ \E p \in Callers : Add(p)
    \/ \E p \in Callers : Get(p)
    \/ \E p \in Callers : Delete(p)

SpecDisjoint == InitDisjoint /\ [][NextDisjoint]_vars

-----------------------------------------------------------------------------
(* One caller on one key and the sweeper, every interval, with the          *)
(* scheduling the Go runtime gives: time passes, a goroutine that can run   *)
(* does, and a goroutine waiting in Lock() gets the lock when it is freed   *)
(* again and again.                                                         *)

SingleKey == ("c1" :> {"k1"}) @@ ("c2" :> {})
SoleCaller == ("c1" :> Keys) @@ ("c2" :> {})

InitLive == InitWith(CleanupIntervals, SingleKey, {EmptyMap})

NextLive ==
    \/ Tick
    \/ GcRecv
    \/ GcLock
    \/ \E p \in Callers : CallAdd(p)
    \/ \E p \in Callers : CallDelete(p)
    \/ \E p \in Callers : CallCleanup(p)
    \/ \E p \in Callers : CallFlush(p)
    \/ \E p \in Callers : Add(p)
    \/ \E p \in Callers : Delete(p)
    \/ \E p \in Callers : Flush(p)
    \/ \E p \in Procs : CleanupStep(p)
    \/ \E p \in Procs : CleanupReturn(p)

Fairness ==
    /\ WF_vars(Tick)
    /\ WF_vars(GcRecv)
    /\ SF_vars(GcLock)
    /\ \A p \in Procs :
        WF_vars(Add(p) \/ Delete(p) \/ Flush(p) \/ CleanupStep(p) \/ CleanupReturn(p))

SpecLive == InitLive /\ [][NextLive]_vars /\ Fairness

-----------------------------------------------------------------------------
(* One caller, two stores: a dump of the second, which Adds have filled,   *)
(* is loaded into the first, which the caller fills with Add               *)

\* the mappings that up to two Adds leave in a store
AfterOneAdd ==
    {EmptyMap} \cup {AddStore(EmptyMap, k, d, t, 0) : k \in Keys, d \in Data, t \in TTLs}

AfterAdds ==
    AfterOneAdd \cup
        UNION {{AddStore(m, k, d, t, 0) : k \in Keys, d \in Data, t \in TTLs} : m \in AfterOneAdd}

InitSnapshot == InitWith({i \in CleanupIntervals : i < 0}, SoleCaller, AfterAdds)

NextSnapshot ==
    \/ \E p \in Callers : CallAdd(p)
    \/ \E p \in Callers : Add(p)
    \/ \E p \in Callers : SaveOther(p)
    \/ \E p \in Callers : CallLoad(p)
    \/ \E p \in Callers : Load(p)
    \/ \E p \in Callers : LoadFails(p)

SpecSnapshot == InitSnapshot /\ [][NextSnapshot]_vars

-----------------------------------------------------------------------------
(* Two callers on one key and the sweeper on; the callers drop the store *)

SharedKey == [p \in Callers |-> {"k1"}]

InitDiscard == InitWith({i \in CleanupIntervals : i > 0}, SharedKey, {EmptyMap})

NextDiscard ==
    \/ Tick
    \/ GcRecv
    \/ GcLock
    \/ \E p \in Callers : CallAdd(p)
    \/ \E p \in Callers : Add(p)
    \/ \E p \in Callers : Discard(p)
    \/ \E p \in Procs : CleanupStep(p)
    \/ \E p \in Procs : CleanupReturn(p)

SpecDiscard == InitDiscard /\ [][NextDiscard]_vars

-----------------------------------------------------------------------------
(* One caller that stores values of reference kind, reads them back and     *)
(* writes into them                                                         *)

InitAlias == InitWith({i \in CleanupIntervals : i < 0}, SoleCaller, {EmptyMap})

NextAlias ==
    \/ \E p \in Callers : CallAdd(p)
    \/ \E p \in Callers : CallGet(p)
    \/ \E p \in Callers : CallList(p)
    \/ \E p \in Callers : Add(p)
    \/ \E p \in Callers : Get(p)
    \/ \E p \in Callers : List(p)
    \/ \E p \in Callers : MutateValue(p)

SpecAlias == InitAlias /\ [][NextAlias]_vars

-----------------------------------------------------------------------------
(* Two callers on one key and the sweeper, every operation of Cache *)

InitLock == InitWith(CleanupIntervals, SharedKey, {EmptyMap})

NextLock ==
    \/ Tick
    \/ GcRecv
    \/ GcLock
    \/ \E p \in Callers : CallAdd(p)
    \/ \E p \in Callers : CallGet(p)
    \/ \E p \in Callers : CallDelete(p)
    \/ \E p \in Callers : CallCleanup(p)
    \/ \E p \in Callers : CallFlush(p)
    \/ \E p \in Callers : CallCount(p)
    \/ \E p \in Callers : CallList(p)
    \/ \E p \in Callers : CallSize(p)
    \/ \E p \in Callers : Add(p)
    \/ \E p \in Callers : Get(p)
    \/ \E p \in Callers : Delete(p)
    \/ \E p \in Callers : Flush(p)
    \/ \E p \in Callers : Count(p)
    \/ \E p \in Callers : List(p)
    \/ \E p \in Callers : Size(p)
    \/ \E p \in Procs : CleanupStep(p)
    \/ \E p \in Procs : CleanupReturn(p)

SpecLock == InitLock /\ [][NextLock]_vars

-----------------------------------------------------------------------------
(* Callers that Add on keys of their own and sweep, and the sweeper *)

InitExpiry == InitWith(CleanupIntervals, DisjointKeys, {EmptyMap})

NextExpiry ==
    \/ Tick
    \/ GcRecv
    \/ GcLock
    \/ \E p \in Callers : CallAdd(p)
    \/ \E p \in Callers : CallCleanup(p)
    \/ \E p \in Callers : Add(p)
    \/ \E p \in Procs : CleanupStep(p)
    \/ \E p \in Procs : CleanupReturn(p)

SpecExpiry == InitExpiry /\ [][NextExpiry]_vars

-----------------------------------------------------------------------------
(* Properties *)

\* p's call of op returns in this step
Returns(p, op) == InCS(p, op) /\ pc'[p] = "idle"

\* the other keys keep their entries
OthersUntouched(key) ==
    /\ DOMAIN storage' \ {key} = DOMAIN storage \ {key}
    /\ \A k \in DOMAIN storage \ {key} : storage'[k] = storage[k]

SweptAt(m, now) == [k \in {x \in DOMAIN m : ~Expired(m[x], now)} |-> m[k]]

\* a Cleanup has finished its loop and is about to unlock and return
SweepDone == sweep.active /\ todo = {}

\* C2 (as stated): Cleanup removes exactly the entries with expiresAt <= now
\* at the moment it runs (one reading of the clock, when it starts), and keeps
\* every other entry as it was.
C2_ExactAtStart == SweepDone => storage = SweptAt(sweep.before, sweep.start)

\* C2 (amended): every entry with expiresAt <= now when the sweep took the
\* lock is gone, every entry with expiresAt > now when the sweep ends is kept
\* with the same value and expiresAt, and nothing is added or changed.
C2_CleanupBetweenReadings ==
    SweepDone =>
        /\ DOMAIN storage \subseteq DOMAIN sweep.before
        /\ \A k \in DOMAIN storage : storage[k] = sweep.before[k]
        /\ \A k \in DOMAIN sweep.before :
            /\ Expired(sweep.before[k], sweep.start) => k \notin DOMAIN storage
            /\ ~Expired(sweep.before[k], clock) => k \in DOMAIN storage

\* C2 case: a finished sweep that removed one entry and kept another.
C2_Witness ==
    /\ SweepDone
    /\ \E k \in DOMAIN sweep.before : k \notin DOMAIN storage
    /\ \E k \in DOMAIN sweep.before : k \in DOMAIN storage

\* C6: Delete(k) of an absent key returns "key not found" and leaves the
\* mapping (keys, values, expiresAt, count) as it was.
C6_DeleteAbsent ==
    [][\A p \in Callers :
        (Returns(p, "Delete") /\ call[p].key \notin DOMAIN storage)
            => /\ last'.ret = ErrKeyNotFound
               /\ storage' = storage
               /\ CountResult(storage') = CountResult(storage)]_vars

\* C6 case: a Delete has just failed on a non-empty store.
C6_Witness ==
    /\ last.op = "Delete"
    /\ last.ret = ErrKeyNotFound
    /\ storage # <<>>

\* C7: Delete(k) of a present key, expired or not, returns no error, removes
\* k only (the count drops by one), and a Get(k) that follows returns
\* not-found.
C7_DeletePresent ==
    [][\A p \in Callers :
        /\ (Returns(p, "Delete") /\ call[p].key \in DOMAIN storage)
            => /\ last'.ret = Nil
               /\ call[p].key \notin DOMAIN storage'
               /\ OthersUntouched(call[p].key)
               /\ CountResult(storage') = CountResult(storage) - 1
        /\ (Returns(p, "Get") /\ last.op = "Delete" /\ last.key = call[p].key)
            => last'.ret = <<Nil, FALSE>>]_vars

\* C7 case: a Delete holds the lock on a present key that is not yet expired.
C7_Witness ==
    \E p \in Callers :
        /\ InCS(p, "Delete")
        /\ call[p].key \in DOMAIN storage
        /\ ~Expired(storage[call[p].key], clock)
        /\ CountResult(storage) = 2

\* C8: Add on a key that already holds an entry replaces its value and its
\* expiresAt (computed from the clock and ttl of this call), keeps the count
\* and leaves the other keys alone.
C8_LastSetWins ==
    [][\A p \in Callers :
        (Returns(p, "Add") /\ call[p].key \in DOMAIN storage)
            => /\ call[p].key \in DOMAIN storage'
               /\ storage'[call[p].key].data = call[p].data
               /\ storage'[call[p].key].destroyTimestamp
                     = Unix(clock) + Seconds(call[p].ttl)
               /\ CountResult(storage') = CountResult(storage)
               /\ OthersUntouched(call[p].key)]_vars

\* C8 case: an Add holds the lock on a key whose entry has another value and
\* another expiresAt than the ones this call will store.
C8_Witness ==
    \E p \in Callers :
        /\ InCS(p, "Add")
        /\ call[p].key \in DOMAIN storage
        /\ storage[call[p].key].data # call[p].data
        /\ storage[call[p].key].destroyTimestamp # Unix(clock) + Seconds(call[p].ttl)

\* the operations that may take a key out of the mapping
Removers == {"Cleanup", "Delete", "Flush"}

\* the keys of a slice of KeyItemPair
ListedKeys(items) == {items[i].Key : i \in 1..Len(items)}

C10_FlushEmpties ==
    [][\A p \in Callers :
        /\ Returns(p, "Flush") => CountResult(storage') = 0
        /\ (Returns(p, "Count") /\ last.op = "Flush") => last'.ret = 0]_vars

\* C10 case: a Flush holds the lock on a store with an expired entry and a
\* live one.
C10_Witness ==
    \E p \in Callers :
        /\ InCS(p, "Flush")
        /\ \E k \in DOMAIN storage : Expired(storage[k], clock)
        /\ \E k \in DOMAIN storage : ~Expired(storage[k], clock)

\* every call has returned
Quiescent == \A p \in Procs : pc[p] = "idle"

\* C4: callers on pairwise disjoint keys lose no update: once every call has
\* returned, a caller's key is present iff its last mutation was an Add, it
\* holds the value of that Add, and Count is the number of keys present.
C4_NoLostUpdate ==
    (Quiescent /\ OwnKeys) =>
        /\ \A p \in Callers : \A k \in keysOf[p] :
            /\ k \in DOMAIN storage <=> mine[p].op = "Add"
            /\ k \in DOMAIN storage => storage[k].data = mine[p].data
        /\ CountResult(storage) = Cardinality({p \in Callers : mine[p].op = "Add"})

\* C4 case: both callers have returned, one's last mutation an Add that
\* replaced its earlier value, the other's a Delete after an Add.
C4_Witness ==
    /\ Quiescent
    /\ mine["c1"].op = "Add"
    /\ mine["c1"].data = "v2"
    /\ mine["c2"].op = "Delete"
    /\ last = [op |-> "Delete", key |-> "k2", data |-> Nil, ret |-> Nil]
    /\ DOMAIN storage = {"k1"}

\* an entry of k that the sweep's test would remove now
Stale(k) == k \in DOMAIN storage /\ Expired(storage[k], clock)

\* the ticker has a tick still to come
TickAhead == cleanupInterval > 0 /\ clock + cleanupInterval <= MaxClock

\* C3: with a positive interval an entry that is past its expiresAt while a
\* tick is still to come is eventually out of the mapping (so Count excludes
\* it) or replaced by a live one, with no manual Cleanup needed; with a
\* non-positive interval the sweeper never runs and a key leaves the mapping
\* only in a caller's Cleanup, Delete or Flush, however long the wait.
C3_BackgroundSweep ==
    /\ \A k \in Keys : (Stale(k) /\ TickAhead) ~> ~Stale(k)
    /\ [][cleanupInterval <= 0 =>
            /\ pc'[GC] = "idle"
            /\ (\E k \in DOMAIN storage : k \notin DOMAIN storage')
                => \E p \in Callers : pc[p] = "cs" /\ call[p].op \in Removers]_vars

\* C3 case: the sweeper, woken by the ticker, has finished a sweep that took
\* out the entry an Add had stored with its expiresAt at the clock's second,
\* and no caller has ever run Cleanup, Delete or Flush.
C3_Witness ==
    /\ InCS(GC, "Cleanup")
    /\ SweepDone
    /\ last.op = "Add"
    /\ "k1" \in DOMAIN sweep.before
    /\ sweep.before["k1"].destroyTimestamp = 0
    /\ storage = EmptyMap

\* C5: a dump saved from one store, whatever Adds left in it, and loaded into
\* another, pre-populated store leaves that store holding exactly the mapping
\* that was saved: same keys, values and expiresAt, expired entries included,
\* and none of the keys it held before that the dump lacks.
C5_RoundTrip ==
    [][\A p \in Callers :
        Returns(p, "Load")
            => /\ storage' = other
               /\ \A k \in DOMAIN storage \ DOMAIN other : k \notin DOMAIN storage']_vars

\* C5 case: a Load holds the lock on a store that has a key the dump lacks
\* and another value for a key the dump has, the dump being of a store with an
\* entry past its expiresAt.
C5_Witness ==
    \E p \in Callers :
        /\ InCS(p, "Load")
        /\ DOMAIN storage \ DOMAIN other # {}
        /\ \E k \in DOMAIN storage \cap DOMAIN other : storage[k] # other[k]
        /\ \E k \in DOMAIN other : other[k].destroyTimestamp < Unix(clock)

\* C11: with no mutation in flight, List returns each key of the mapping
\* exactly once, paired with the value and expiresAt the mapping holds for
\* it, so its length is what Count returns: a Count that completes right
\* after a List, or a List right after a Count, agrees with it.
C11_ListMatchesCount ==
    [][\A p \in Callers :
        /\ Returns(p, "List")
            => /\ Len(last'.ret) = CountResult(storage)
               /\ \A k \in DOMAIN storage :
                    Cardinality({i \in 1..Len(last'.ret) : last'.ret[i].Key = k}) = 1
               /\ \A i \in 1..Len(last'.ret) :
                    /\ last'.ret[i].Key \in DOMAIN storage
                    /\ last'.ret[i].Item = storage[last'.ret[i].Key]
        /\ (Returns(p, "Count") /\ last.op = "List") => last'.ret = Len(last.ret)
        /\ (Returns(p, "List") /\ last.op = "Count") => Len(last'.ret) = last.ret]_vars

\* C11 case: a List holds the shared lock on a store of two entries, one of
\* them past its expiresAt, right after a Count completed.
C11_Witness ==
    \E p \in Callers :
        /\ InCS(p, "List")
        /\ last.op = "Count"
        /\ CountResult(storage) = 2
        /\ \E k \in DOMAIN storage : Expired(storage[k], clock)

\* the store is discarded: no caller holds it any more
Discarded == \A p \in Callers : pc[p] = "gone"

\* C12: once the store is discarded (the stop signal), the background task
\* lets a sweep in progress finish and starts no further Cleanup: from then
\* on it leaves its wait for the ticker no more.
C12_StopsWhenDiscarded ==
    [][(Discarded /\ pc[GC] = "idle") => pc'[GC] = "idle"]_vars

\* C13: the operations are linearizable.  Each operation takes effect on the
\* atomic map in one step between its call and its return (the step in which
\* it returns), so in an order consistent with real time; whenever no writer
\* holds the lock the store's mapping is the atomic map; every Get, Count,
\* List and Delete returns what the same operation returns on the atomic map,
\* and a Cleanup, the sweeper's included, leaves what a Cleanup run alone on
\* the atomic map between the same two clock readings may leave.
C13_Linearizable ==
    [][/\ writer' = NoProc => storage' = atomic'
       /\ \A p \in Callers :
            /\ Returns(p, "Get") => last'.ret = GetResult(atomic, call[p].key)
            /\ Returns(p, "Count") => last'.ret = CountResult(atomic)
            /\ Returns(p, "List") => last'.ret \in ListResults(atomic)
            /\ Returns(p, "Delete") => last'.ret = DeleteResult(atomic, call[p].key)
       /\ \A p \in Procs :
            Returns(p, "Cleanup")
                => /\ sweep.before = atomic
                   /\ storage' \in CleanupOutcomes(atomic, sweep.start, clock)]_vars

\* C13 case: two readers are inside their critical sections together on a
\* non-empty store while the sweeper, woken by a tick, waits for the lock.
C13_Witness ==
    /\ InCS("c1", "Get")
    /\ InCS("c2", "List")
    /\ pc[GC] = "lock"
    /\ call["c1"].key \in DOMAIN storage
    /\ last.op = "Add"

\* what a caller reads in the value that Get(k) returns
Read(k) == heap[storage[k].data]

\* C14: no value is shared by reference across the store boundary: in a
\* step of no store operation (no call is inside its critical section), so
\* also when a caller writes into a value it passed to Add or got from Get or
\* List, every key keeps its entry and what a Get of it gives to read.
C14_NoSharedReference ==
    [][(\A p \in Procs : pc[p] # "cs")
        => \A k \in DOMAIN storage :
            /\ k \in DOMAIN storage'
            /\ storage'[k] = storage[k]
            /\ Read(k)' = Read(k)]_vars

\* C15: the expiresAt that Add stores is never earlier than now + ttl, now
\* being the clock's second at the call and ttl any duration, a fraction of a
\* second or a negative one included (so much of expiresAt = now + ttl as a
\* timestamp in whole seconds can keep).
C15_NeverEarlierThanTtl ==
    [][\A p \in Callers :
        Returns(p, "Add")
            => /\ call[p].key \in DOMAIN storage'
               /\ storage'[call[p].key].destroyTimestamp * SubSec
                     >= Unix(clock) * SubSec + call[p].ttl]_vars

\* the next step of p's operation, from inside its critical section
Proceed(p) ==
    \/ Add(p) \/ Get(p) \/ Delete(p) \/ Flush(p) \/ Count(p) \/ List(p) \/ Size(p)
    \/ CleanupStep(p) \/ CleanupReturn(p)

\* C16: lock discipline.  A mutating operation inside its critical section
\* is alone there; every operation inside its critical section holds the
\* lock of its kind (exclusive for Add, Delete, Cleanup, Flush; shared for
\* Get, Count, List, Size) and holds none outside; with no writer inside, a
\* read-only operation gets in whatever readers are inside already; and no
\* deadlock: every operation inside its critical section can take its next
\* step, so a waiting Lock() is always waiting for an operation that can go on.
C16_LockDiscipline ==
    /\ writer # NoProc => (readers = {} /\ \A p \in Procs : pc[p] = "cs" => p = writer)
    /\ \A p \in Procs :
        /\ pc[p] = "cs" => IF call[p].op \in WriteOps THEN writer = p ELSE p \in readers
        /\ pc[p] # "cs" => (writer # p /\ p \notin readers)
        /\ pc[p] = "cs" => ENABLED Proceed(p)
    /\ \A p \in Callers :
        (pc[p] = "idle" /\ writer = NoProc) => ENABLED (CallSize(p) /\ readers' = readers \cup {p})
    /\ pc[GC] = "lock" => (ENABLED GcLock \/ \E p \in Callers : pc[p] = "cs")

\* C16 case: both callers are inside read-only operations together, one of
\* them Size, while the sweeper waits in Lock().
C16_Witness ==
    /\ readers = Callers
    /\ InCS("c1", "Size")
    /\ InCS("c2", "Count")
    /\ pc[GC] = "lock"
    /\ storage # EmptyMap

\* C17: a sweep never removes a live entry: when a Cleanup, a caller's or
\* the sweeper's, takes out the entry that an Add with ttl > 0 stored at
\* time t, the time is t + ttl or later, wherever in its second t fell and
\* however short ttl is.
C17_LiveEntryNeverSwept ==
    [][\A p \in Callers : \A k \in keysOf[p] :
        (/\ OwnKeys
         /\ \E q \in Procs : InCS(q, "Cleanup")
         /\ k \in DOMAIN storage
         /\ k \notin DOMAIN storage'
         /\ mine[p].op = "Add"
         /\ mine[p].ttl > 0)
            => clock >= mine[p].at + mine[p].ttl]_vars

\* a Cleanup has finished its loop, an earlier Cleanup has returned, and no
\* Add has returned since
SecondSweepDone == SweepDone /\ sweep.prev # Never

\* C18 (as stated): once a Cleanup has returned, a further Cleanup with no
\* Add in between leaves the mapping as it found it, however much time has
\* passed.
C18_CleanupIdempotent == SecondSweepDone => storage = sweep.before

\* C18 (amended): once a Cleanup has returned, a further Cleanup with no Add
\* in between leaves the mapping as it found it as long as the clock still
\* reads the second it read when the earlier call took the lock; when the
\* clock has moved on it removes only entries whose expiresAt lies after that
\* second and not after the clock, and keeps the others as they were.
C18_IdempotentWithinSecond ==
    SecondSweepDone =>
        /\ Unix(clock) = sweep.prev => storage = sweep.before
        /\ DOMAIN storage \subseteq DOMAIN sweep.before
        /\ \A k \in DOMAIN storage : storage[k] = sweep.before[k]
        /\ \A k \in Swept :
            /\ sweep.before[k].destroyTimestamp > sweep.prev
            /\ sweep.before[k].destroyTimestamp <= Unix(clock)

\* C18 case: a second Cleanup in a row has finished, within the second in
\* which the first took the lock, on a store that still holds two entries.
C18_Witness ==
    /\ SecondSweepDone
    /\ last.op = "Cleanup"
    /\ Unix(clock) = sweep.prev
    /\ CountResult(sweep.before) = 2

\* the processes inside their critical sections
InsideCS == {p \in Procs : pc[p] = "cs"}

\* C19: exactly-once eviction.  Whatever Cleanup (a caller's or the
\* sweeper's), Flush and Delete calls race on a key, a step that takes the
\* key out of the mapping is the step of the one operation inside its
\* critical section, a Cleanup, Flush or Delete of that key; a Delete returns
\* nil exactly when its own step took its key out, the count going down by
\* one, and "key not found" exactly when the key was out already, the
\* mapping staying as it was; a step of a sweep takes out one key at most.
C19_ExactlyOnceEviction ==
    [][/\ \A k \in DOMAIN storage :
            k \notin DOMAIN storage'
                => /\ Cardinality(InsideCS) = 1
                   /\ \A p \in InsideCS :
                        /\ call[p].op \in Removers
                        /\ writer = p
                        /\ call[p].op = "Delete" => call[p].key = k
                        /\ call[p].op # "Flush"
                            => CountResult(storage') = CountResult(storage) - 1
       /\ \A p \in Callers :
            Returns(p, "Delete")
                => /\ last'.ret = Nil
                        <=> (call[p].key \in DOMAIN storage /\ call[p].key \notin DOMAIN storage')
                   /\ last'.ret = ErrKeyNotFound <=> call[p].key \notin DOMAIN storage
                   /\ last'.ret = Nil => CountResult(storage') = CountResult(storage) - 1
                   /\ last'.ret = ErrKeyNotFound => storage' = storage]_vars

\* C19 case: a Delete holds the lock on a key that is in the mapping past
\* its expiresAt while the sweeper, woken by a tick, waits in Lock() to sweep
\* it, a Cleanup having returned before.
C19_Witness ==
    \E p \in Callers :
        /\ InCS(p, "Delete")
        /\ call[p].key \in DOMAIN storage
        /\ Expired(storage[call[p].key], clock)
        /\ pc[GC] = "lock"
        /\ last.op = "Cleanup"

\* C20: throughout a sweep its caller holds the exclusive lock, the entries
\* not yet visited are still in the mapping, every entry the loop has visited
\* and kept has expiresAt strictly greater than the clock when the sweep took
\* the lock, and every entry it has removed had expiresAt less than or equal
\* to the clock now, so to the clock when the lock is released: the clock may
\* advance during the sweep and never goes back.
C20_SweepClockBounds ==
    sweep.active =>
        /\ writer # NoProc
        /\ InCS(writer, "Cleanup")
        /\ sweep.start <= clock
        /\ todo \subseteq DOMAIN storage
        /\ \A k \in DOMAIN storage \ todo :
            storage[k].destroyTimestamp > Unix(sweep.start)
        /\ \A k \in Swept : sweep.before[k].destroyTimestamp <= Unix(clock)

\* C20 case: a sweep during which the clock's second advanced has finished;
\* it removed an entry that was live when it took the lock and kept another.
C20_Witness ==
    /\ SweepDone
    /\ Unix(sweep.start) < Unix(clock)
    /\ \E k \in Swept : sweep.before[k].destroyTimestamp > Unix(sweep.start)
    /\ storage # EmptyMap

====
